---- MODULE Spec2Model ----
(***************************************************************************)
(* Hydrate backend (src/server.js): the reminder matcher                   *)
(* shouldFireReminder, the JSON file store (readDB / writeDB), the request *)
(* handlers that mutate it and the one-minute cron callback.               *)
(*                                                                         *)
(* Representation of the JavaScript values:                                *)
(*   - an instant is an integer number of milliseconds since the epoch     *)
(*     (Date.now(), Date.prototype.getTime());                             *)
(*   - the server's Date fields are UTC fields (the image is node:18-slim  *)
(*     with no TZ set, src/server.js:320-337);                             *)
(*   - a calendar date (getFullYear, getMonth, getDate) is the day number  *)
(*     since the epoch;                                                    *)
(*   - an "HH:MM" string is the pair <<HH, MM>> that                       *)
(*     split(':').map(Number) yields;                                      *)
(*   - an ISO-8601 string is the tuple <<day, hour, minute, second, ms>>   *)
(*     of its fields; null is the empty tuple.                             *)
(***************************************************************************)
EXTENDS Integers, Sequences, FiniteSets, TLC

VARIABLES
  clock,       \* the wall clock: Date.now() in ms
  cronFired,   \* the cron callback has been invoked for the minute starting at clock
  vapid,       \* VAPID_PUBLIC_KEY && VAPID_PRIVATE_KEY are set in the environment
  dbPath,      \* the file at DB_PATH
  tmpPath,     \* the file at DB_PATH + '.tmp'
  procs,       \* the in-flight invocations: request handlers and cron callbacks
  nextUserId,  \* stands for the next crypto.randomBytes(8) draw
  nextRemId,   \* stands for the next crypto.randomBytes(6) draw
  serial,      \* TRUE when invocations are run one after another, FALSE when they overlap
  started,     \* invocations started so far, counted when invocations overlap
  hist,        \* history: the users that completed cron callbacks removed, and
               \* the endpoints /subscribe and /addReminder were called with
  mRem,        \* matcher harness: the reminder handed to shouldFireReminder
  mNow,        \* matcher harness: the nowUtcMs handed to shouldFireReminder
  mResult,     \* matcher harness: the value shouldFireReminder returned
  mPhase       \* matcher harness: "input" before the call, "evaluated" after

sysVars == <<clock, cronFired, vapid, dbPath, tmpPath, procs, nextUserId, nextRemId, serial, started,
            hist>>
harnessVars == <<mRem, mNow, mResult, mPhase>>
vars == <<sysVars, harnessVars>>

NULL == <<>>

----------------------------------------------------------------------------
(* Date arithmetic                                                         *)

MsPerSecond == 1000
MsPerMinute == 60 * 1000
MsPerHour == 60 * MsPerMinute
MsPerDay == 24 * MsPerHour

\* Date.prototype.getHours / getMinutes / getSeconds / getMilliseconds
getHours(ms) == (ms \div MsPerHour) % 24
getMinutes(ms) == (ms \div MsPerMinute) % 60
getSeconds(ms) == (ms \div MsPerSecond) % 60
getMilliseconds(ms) == ms % MsPerSecond

\* (getFullYear(), getMonth(), getDate()) of an instant: its calendar day
DateOf(ms) == ms \div MsPerDay

\* new Date(year, month, date, h, m, s, ms).getTime()
NewDate(day, h, m, s, ms) ==
  day * MsPerDay + h * MsPerHour + m * MsPerMinute + s * MsPerSecond + ms

\* new Date(ms).toISOString()
toISOString(ms) ==
  <<DateOf(ms), getHours(ms), getMinutes(ms), getSeconds(ms), getMilliseconds(ms)>>

\* new Date(iso).getTime()
DateParse(iso) == NewDate(iso[1], iso[2], iso[3], iso[4], iso[5])

----------------------------------------------------------------------------
(* shouldFireReminder, src/server.js:201-241                               *)

\* const userLocalMs = nowUtcMs - tz * 60 * 1000
UserLocalMsAdded(rem, nowUtcMs) ==
  nowUtcMs + rem.timezoneOffsetMinutes * 60 * 1000

UserLocalMs(rem, nowUtcMs) ==
  nowUtcMs - rem.timezoneOffsetMinutes * 60 * 1000

\* if (rem.lastSentISO) { if (nowUtcMs - last.getTime() < 70 * 1000) return false; }
DebouncedNever(rem, nowUtcMs) == FALSE

DebouncedWithinMinute(rem, nowUtcMs) ==
  /\ rem.lastSentISO # NULL
  /\ nowUtcMs - DateParse(rem.lastSentISO) < 60 * 1000

Debounced(rem, nowUtcMs) ==
  /\ rem.lastSentISO # NULL
  /\ nowUtcMs - DateParse(rem.lastSentISO) < 70 * 1000

\* scheduledLocalStart.getTime() + tz * 60 * 1000
ScheduledUtcMsRolling(rem, nowUtcMs) ==
  LET today == NewDate(DateOf(UserLocalMs(rem, nowUtcMs)),
                       rem.time[1], rem.time[2], 0, 0)
                 + rem.timezoneOffsetMinutes * 60 * 1000
  IN  IF nowUtcMs < today THEN today - MsPerDay ELSE today

ScheduledUtcMs(rem, nowUtcMs) ==
  NewDate(DateOf(UserLocalMs(rem, nowUtcMs)), rem.time[1], rem.time[2], 0, 0)
    + rem.timezoneOffsetMinutes * 60 * 1000

\* untilLocal.getTime() + tz * 60 * 1000
UntilUtcMs(rem, nowUtcMs) ==
  NewDate(DateOf(UserLocalMs(rem, nowUtcMs)),
          rem.repeatUntil[1], rem.repeatUntil[2], 59, 999)
    + rem.timezoneOffsetMinutes * 60 * 1000

\* if (rem.repeatUntil) { ... if (nowUtcMs > untilUtcMs) return false; }
PastRepeatUntilWrapped(rem, nowUtcMs) ==
  /\ rem.repeatUntil # NULL
  /\ nowUtcMs > UntilUtcMs(rem, nowUtcMs)
       + (IF UntilUtcMs(rem, nowUtcMs) < ScheduledUtcMs(rem, nowUtcMs)
          THEN MsPerDay ELSE 0)

PastRepeatUntil(rem, nowUtcMs) ==
  /\ rem.repeatUntil # NULL
  /\ nowUtcMs > UntilUtcMs(rem, nowUtcMs)

\* Math.floor((nowUtcMs - scheduledUtcMs) / (60 * 1000))
DiffMinRounded(rem, nowUtcMs) ==
  (nowUtcMs - ScheduledUtcMs(rem, nowUtcMs) + 30 * 1000) \div (60 * 1000)

DiffMin(rem, nowUtcMs) ==
  (nowUtcMs - ScheduledUtcMs(rem, nowUtcMs)) \div (60 * 1000)

shouldFireReminder(rem, nowUtcMs) ==
  LET userLocalMs == UserLocalMs(rem, nowUtcMs)
      sh == rem.time[1]
      sm == rem.time[2]
  IN  IF rem.repeatEveryMinutes <= 0
      THEN IF getHours(userLocalMs) = sh /\ getMinutes(userLocalMs) = sm
           THEN ~Debounced(rem, nowUtcMs)
           ELSE FALSE
      ELSE IF nowUtcMs < ScheduledUtcMs(rem, nowUtcMs) THEN FALSE
      ELSE IF PastRepeatUntil(rem, nowUtcMs) THEN FALSE
      ELSE IF DiffMin(rem, nowUtcMs) < 0 THEN FALSE
      ELSE IF DiffMin(rem, nowUtcMs) % rem.repeatEveryMinutes = 0
           THEN ~Debounced(rem, nowUtcMs)
           ELSE FALSE


----------------------------------------------------------------------------
(* Sequences                                                               *)

Min(S) == CHOOSE x \in S : \A y \in S : x <= y

\* array.splice(k, 1), 1-based
RemoveAt(seq, k) == SubSeq(seq, 1, k - 1) \o SubSeq(seq, k + 1, Len(seq))

----------------------------------------------------------------------------
(* The store file: readDB and writeDB, src/server.js:49-62                  *)

EmptyDB == [users |-> <<>>]

NoFile == [exists |-> FALSE, kind |-> "none", data |-> EmptyDB]
\* a file just opened with flag 'w': created or truncated, nothing written yet
EmptyFile == [exists |-> TRUE, kind |-> "empty", data |-> EmptyDB]
\* a file holding bytes of two writes: not parseable
GarbledFile == [exists |-> TRUE, kind |-> "garbled", data |-> EmptyDB]
\* a file holding all of JSON.stringify(data, null, 2)
JsonFile(data) == [exists |-> TRUE, kind |-> "json", data |-> data]

\* readDB: JSON.parse of the file, { users: [] } when reading or parsing throws
readDBThrowing(file) == file.data

readDB(file) ==
  IF file.exists /\ file.kind = "json" THEN file.data ELSE EmptyDB

\* what a descriptor's file holds after fs.writeFile has written `data` through
\* it at offset 0: the text alone when nothing was written since the truncation
\* (or the same text was), otherwise the text or, when the text already there is
\* longer, the text followed by the rest of the other
WriteOutcomes(file, data) ==
  IF file.kind = "empty" \/ file = JsonFile(data)
  THEN {JsonFile(data)}
  ELSE {JsonFile(data), GarbledFile}

----------------------------------------------------------------------------
(* Users and reminders, src/server.js:65-78, 111-121, 183-190               *)

\* data.users.find(u => u.subscription.endpoint === endpoint), as an index
\* (0 for undefined)
findUserByEndpoint(data, endpoint) ==
  LET hits == {i \in 1 .. Len(data.users) :
                 data.users[i].subscription.endpoint = endpoint}
  IN  IF hits = {} THEN 0 ELSE Min(hits)

addOrUpdateUserAlwaysPush(data, subscription, newId) ==
  [data |-> [users |-> Append(data.users,
                [id |-> newId, subscription |-> subscription, reminders |-> <<>>])],
   user |-> Len(data.users) + 1,
   created |-> TRUE]

addOrUpdateUserNewIdOnUpdate(data, subscription, newId) ==
  LET i == findUserByEndpoint(data, subscription.endpoint)
  IN  IF i = 0
      THEN addOrUpdateUserAlwaysPush(data, subscription, newId)
      ELSE [data |-> [users |-> [data.users EXCEPT
                        ![i] = [id |-> newId, subscription |-> subscription,
                                reminders |-> <<>>]]],
            user |-> i,
            created |-> TRUE]

\* addOrUpdateUserInData: the new data, the index of the user returned, and
\* whether an id was drawn
addOrUpdateUserInData(data, subscription, newId) ==
  LET i == findUserByEndpoint(data, subscription.endpoint)
  IN  IF i = 0
      THEN [data |-> [users |-> Append(data.users,
                        [id |-> newId, subscription |-> subscription,
                         reminders |-> <<>>])],
            user |-> Len(data.users) + 1,
            created |-> TRUE]
      ELSE [data |-> [users |-> [data.users EXCEPT ![i].subscription = subscription]],
            user |-> i,
            created |-> FALSE]

\* newRem of POST /addReminder
NewReminder(id, spec) ==
  [id |-> id,
   time |-> spec.time,
   timezoneOffsetMinutes |-> spec.timezoneOffsetMinutes,
   repeatEveryMinutes |-> spec.repeatEveryMinutes,
   repeatUntil |-> spec.repeatUntil,
   lastSentISO |-> NULL]

\* the positions <<user, reminder>> of the reminders with this id
RemindersWithId(data, id) ==
  {pos \in UNION {{<<i, j>> : j \in 1 .. Len(data.users[i].reminders)} :
                    i \in 1 .. Len(data.users)} :
     data.users[pos[1]].reminders[pos[2]].id = id}

DeleteReminderAllOfUser(data, id) ==
  LET owners == {pos[1] : pos \in RemindersWithId(data, id)}
  IN  IF owners = {}
      THEN [changed |-> FALSE, data |-> data]
      ELSE [changed |-> TRUE,
            data |-> [users |-> [data.users EXCEPT ![Min(owners)].reminders = <<>>]]]

DeleteReminderAlwaysChanged(data, id) ==
  LET owners == {pos[1] : pos \in RemindersWithId(data, id)}
  IN  IF owners = {}
      THEN [changed |-> TRUE, data |-> data]
      ELSE LET i == Min(owners)
               j == Min({pos[2] : pos \in {q \in RemindersWithId(data, id) : q[1] = i}})
           IN  [changed |-> TRUE,
                data |-> [users |-> [data.users EXCEPT
                                       ![i].reminders = RemoveAt(@, j)]]]

\* the loop of POST /deleteReminder: the first user holding a reminder with the
\* id loses its first such reminder
DeleteReminderInData(data, id) ==
  LET owners == {pos[1] : pos \in RemindersWithId(data, id)}
  IN  IF owners = {}
      THEN [changed |-> FALSE, data |-> data]
      ELSE LET i == Min(owners)
               j == Min({pos[2] : pos \in {q \in RemindersWithId(data, id) : q[1] = i}})
           IN  [changed |-> TRUE,
                data |-> [users |-> [data.users EXCEPT
                                       ![i].reminders = RemoveAt(@, j)]]]

----------------------------------------------------------------------------
(* Invocations                                                             *)

\* concurrent invocations modelled
NProcs == 2
ProcIds == 1 .. NProcs

\* ids drawn for users and for reminders while invocations are serial
MaxUserIds == 2
MaxRemIds == 2

\* invocations started while invocations overlap
MaxInvocations == 2

\* the clock advances in steps of ClockStepMs from ClockStart
StartDay == 1
ClockStart == NewDate(StartDay, 8, 0, 0, 0)
ClockStepMs == 30 * 1000
MaxClockSteps == 3
MaxClockStepsOverlapping == 2

\* request bodies
NoSub == [endpoint |-> "", keys |-> ""]
SubscriptionInputs ==
  { [endpoint |-> "e1", keys |-> "k1"], [endpoint |-> "e1", keys |-> "k2"],
    [endpoint |-> "e2", keys |-> "k1"], NoSub }
NoSpec ==
  [time |-> NULL, timezoneOffsetMinutes |-> 0, repeatEveryMinutes |-> 0,
   repeatUntil |-> NULL]
ReminderSpecInputs ==
  { [time |-> <<8, 0>>, timezoneOffsetMinutes |-> 0, repeatEveryMinutes |-> 0,
     repeatUntil |-> NULL],
    [time |-> <<10, 0>>, timezoneOffsetMinutes |-> -120, repeatEveryMinutes |-> 1,
     repeatUntil |-> <<10, 2>>],
    NoSpec }

NoArg == [subscription |-> NoSub, spec |-> NoSpec, id |-> 0]
NoResp == [status |-> 0, userId |-> 0, reminders |-> <<>>]

\* op    the handler or callback running
\* pc    the await it is suspended at: "read" (readDB), "send"
\*       (webpush.sendNotification), "open", "write" (fs.writeFile), "rename"
\*       (fs.rename); "done" once it has returned
\* arg   the request body
\* now   nowUtcMs of the cron callback
\* objs  the user objects of the parsed db, in the order read
\* live  db.users, as indexes into objs
\* ui,ri position of the loops over the copies of db.users and user.reminders
\* out   the data handed to writeDB
\* fd    the file the descriptor of fs.writeFile refers to
\* writes the calls of writeDB made
\* resp  the HTTP response
\* snap  the data readDB returned
\* log   the delivery attempts made, in order
\* evals the positions of the reminders handed to shouldFireReminder, in order
IdleProc ==
  [op |-> "idle", pc |-> "idle", arg |-> NoArg, now |-> 0, objs |-> <<>>,
   live |-> <<>>, ui |-> 0, ri |-> 0, out |-> EmptyDB, fd |-> "none",
   writes |-> 0, resp |-> NoResp, snap |-> EmptyDB, log |-> <<>>,
   evals |-> <<>>]

Busy(p) == procs[p].pc # "idle"

\* a new invocation takes the lowest free slot; when invocations are serial it
\* starts only once every other has returned
MayStart(p) ==
  /\ ~Busy(p)
  /\ \A q \in ProcIds : q < p => Busy(q)
  /\ serial => \A q \in ProcIds : ~Busy(q)
  /\ ~serial => started < MaxInvocations
  /\ started' = IF serial THEN started ELSE started + 1

\* db.users of an invocation
LiveDataWithoutReminders(rec) ==
  [users |-> [k \in 1 .. Len(rec.live) |->
                [rec.objs[rec.live[k]] EXCEPT !.reminders = <<>>]]]

LiveDataOfSnapshot(rec) == [users |-> rec.objs]

LiveData(rec) ==
  [users |-> [k \in 1 .. Len(rec.live) |-> rec.objs[rec.live[k]]]]

Loaded(rec, data) ==
  [rec EXCEPT !.snap = data, !.objs = data.users,
              !.live = [k \in 1 .. Len(data.users) |-> k]]

\* the call of writeDB(db)
CallWriteDB(rec, data) ==
  [rec EXCEPT !.pc = "open", !.out = data, !.writes = @ + 1, !.objs = <<>>,
              !.live = <<>>, !.ui = 0, !.ri = 0]


----------------------------------------------------------------------------
(* Stores a restart can find                                               *)

\* every reminder of the store, users in order
RECURSIVE RemindersFrom(_, _)
RemindersFrom(data, i) ==
  IF i > Len(data.users) THEN <<>>
  ELSE data.users[i].reminders \o RemindersFrom(data, i + 1)

RemindersOf(data) == RemindersFrom(data, 1)

\* the data POST /addReminder writes over `data` (lines 108-123)
WithReminder(data, subscription, spec) ==
  LET r == addOrUpdateUserInData(data, subscription, Len(data.users) + 1)
      newRem == NewReminder(Len(RemindersOf(data)) + 1, spec)
  IN  [users |-> [r.data.users EXCEPT ![r.user].reminders = Append(@, newRem)]]

SeedSubscriptions ==
  { [endpoint |-> "e1", keys |-> "k1"], [endpoint |-> "e2", keys |-> "k1"] }

\* reminders in the store a restart finds, when invocations are serial and when
\* they overlap
MaxSeedReminders == 2
MaxSeedRemindersOverlapping == 1

\* a time that is not a string (the JSON number 800): /addReminder stores any
\* truthy time as it is (lines 106, 113)
NotAString == <<800>>

SeedSpecs ==
  (ReminderSpecInputs \ {NoSpec})
    \cup {[time |-> NotAString, timezoneOffsetMinutes |-> 0,
            repeatEveryMinutes |-> 0, repeatUntil |-> NULL]}

\* the stores up to n successive valid /addReminder calls leave
RECURSIVE SeedStores(_)
SeedStores(n) ==
  IF n = 0 THEN {EmptyDB}
  ELSE LET fewer == SeedStores(n - 1)
       IN  fewer \cup
           { WithReminder(data, sub, spec) :
               data \in fewer, sub \in SeedSubscriptions,
               spec \in SeedSpecs }

----------------------------------------------------------------------------
(* Guards bounding the runs                                               *)

\* the first invocation of a run that may draw an id is bounded; an invocation
\* for a user already stored draws none
MayDrawUserId(endpoint) ==
  \/ ~serial
  \/ nextUserId <= MaxUserIds
  \/ findUserByEndpoint(readDB(dbPath), endpoint) # 0

----------------------------------------------------------------------------
(* POST /subscribe, src/server.js:92-100                                    *)

\* the history once a request has named the endpoint
Registered(endpoint) ==
  IF endpoint = "" THEN hist
  ELSE [hist EXCEPT !.registered = @ \cup {endpoint}]

SubscribeStart(p, sub) ==
  /\ MayStart(p)
  /\ MayDrawUserId(sub.endpoint)
  /\ procs' = [procs EXCEPT ![p] =
       IF sub.endpoint = ""
       THEN [IdleProc EXCEPT !.op = "subscribe", !.pc = "done",
                             !.arg.subscription = sub, !.resp.status = 400]
       ELSE [IdleProc EXCEPT !.op = "subscribe", !.pc = "read",
                             !.arg.subscription = sub]]
  /\ hist' = Registered(sub.endpoint)
  /\ UNCHANGED <<clock, cronFired, vapid, dbPath, tmpPath, nextUserId, nextRemId,
                 serial, harnessVars>>

SubscribeReadRejectsUnreadable(p) ==
  /\ procs[p].op = "subscribe"
  /\ procs[p].pc = "read"
  /\ LET data == readDB(dbPath)
         r == addOrUpdateUserInData(data, procs[p].arg.subscription, nextUserId)
     IN  IF dbPath.kind # "json"
         THEN /\ procs' = [procs EXCEPT ![p].pc = "done", ![p].resp.status = 500]
              /\ nextUserId' = nextUserId
         ELSE /\ procs' = [procs EXCEPT ![p] =
                   CallWriteDB([@ EXCEPT !.snap = data,
                                         !.resp.userId = r.data.users[r.user].id],
                               r.data)]
              /\ nextUserId' = IF r.created THEN nextUserId + 1 ELSE nextUserId
  /\ UNCHANGED <<clock, cronFired, vapid, dbPath, tmpPath, nextRemId, serial, started, hist,
                 harnessVars>>

SubscribeRead(p) ==
  /\ procs[p].op = "subscribe"
  /\ procs[p].pc = "read"
  /\ LET data == readDB(dbPath)
         r == addOrUpdateUserInData(data, procs[p].arg.subscription, nextUserId)
     IN  /\ procs' = [procs EXCEPT ![p] =
              CallWriteDB([@ EXCEPT !.snap = data,
                                    !.resp.userId = r.data.users[r.user].id],
                          r.data)]
         /\ nextUserId' = IF r.created THEN nextUserId + 1 ELSE nextUserId
  /\ UNCHANGED <<clock, cronFired, vapid, dbPath, tmpPath, nextRemId, serial, started, hist,
                 harnessVars>>

----------------------------------------------------------------------------
(* POST /addReminder, src/server.js:103-125                                 *)

AddReminderStart(p, sub, spec) ==
  /\ MayStart(p)
  /\ MayDrawUserId(sub.endpoint)
  /\ serial => nextRemId <= MaxRemIds
  /\ procs' = [procs EXCEPT ![p] =
       IF sub.endpoint = "" \/ spec.time = NULL
       THEN [IdleProc EXCEPT !.op = "addReminder", !.pc = "done",
                             !.arg.subscription = sub, !.arg.spec = spec,
                             !.resp.status = 400]
       ELSE [IdleProc EXCEPT !.op = "addReminder", !.pc = "read",
                             !.arg.subscription = sub, !.arg.spec = spec]]
  /\ hist' = Registered(sub.endpoint)
  /\ UNCHANGED <<clock, cronFired, vapid, dbPath, tmpPath, nextUserId, nextRemId,
                 serial, harnessVars>>

AddReminderRead(p) ==
  /\ procs[p].op = "addReminder"
  /\ procs[p].pc = "read"
  /\ LET data == readDB(dbPath)
         r == addOrUpdateUserInData(data, procs[p].arg.subscription, nextUserId)
         newRem == NewReminder(nextRemId, procs[p].arg.spec)
         pushed == [users |-> [r.data.users EXCEPT
                                 ![r.user].reminders = Append(@, newRem)]]
     IN  /\ procs' = [procs EXCEPT ![p] =
              CallWriteDB([@ EXCEPT !.snap = data,
                                    !.resp.reminders = pushed.users[r.user].reminders],
                          pushed)]
         /\ nextUserId' = IF r.created THEN nextUserId + 1 ELSE nextUserId
         /\ nextRemId' = nextRemId + 1
  /\ UNCHANGED <<clock, cronFired, vapid, dbPath, tmpPath, serial, started, hist, harnessVars>>

----------------------------------------------------------------------------
(* POST /deleteReminder, src/server.js:176-198                              *)

DeleteReminderStart(p, id) ==
  /\ MayStart(p)
  /\ procs' = [procs EXCEPT ![p] =
       IF id = 0
       THEN [IdleProc EXCEPT !.op = "deleteReminder", !.pc = "done",
                             !.arg.id = id, !.resp.status = 400]
       ELSE [IdleProc EXCEPT !.op = "deleteReminder", !.pc = "read",
                             !.arg.id = id]]
  /\ UNCHANGED <<clock, cronFired, vapid, dbPath, tmpPath, nextUserId, nextRemId,
                 serial, hist, harnessVars>>

DeleteReminderRead(p) ==
  /\ procs[p].op = "deleteReminder"
  /\ procs[p].pc = "read"
  /\ LET data == readDB(dbPath)
         r == DeleteReminderInData(data, procs[p].arg.id)
     IN  procs' = [procs EXCEPT ![p] =
           IF r.changed
           THEN CallWriteDB([@ EXCEPT !.snap = data], r.data)
           ELSE [@ EXCEPT !.snap = data, !.pc = "done", !.resp.status = 404]]
  /\ UNCHANGED <<clock, cronFired, vapid, dbPath, tmpPath, nextUserId, nextRemId,
                 serial, started, hist, harnessVars>>

----------------------------------------------------------------------------
(* The cron callback, src/server.js:244-283                                 *)

\* outcomes of webpush.sendNotification: resolved, rejected with statusCode 410
\* or 404, rejected with anything else
Outcomes == {"Delivered", "Gone", "Transient"}

Attempt(rec, ui, ri, outcome, at) ==
  [rec EXCEPT !.log = Append(@, [ui |-> ui, ri |-> ri, outcome |-> outcome, at |-> at])]

\* db.users after findIndex(u => u.subscription.endpoint === endpoint) and
\* splice(idx, 1)
SpliceEndpoint(rec, endpoint) ==
  LET hits == {k \in 1 .. Len(rec.live) :
                 rec.objs[rec.live[k]].subscription.endpoint = endpoint}
  IN  IF hits = {} THEN rec.live ELSE RemoveAt(rec.live, Min(hits))

\* lines 260-271 once webpush.sendNotification has settled at instant `at`
AfterSendStampsAlways(rec, outcome, at) ==
  LET tried == Attempt(rec, rec.ui, rec.ri, outcome, at)
      stamped == [tried EXCEPT
                    !.objs[rec.ui].reminders[rec.ri].lastSentISO = toISOString(at)]
  IN  IF outcome = "Gone"
      THEN [stamped EXCEPT
              !.live = SpliceEndpoint(rec, rec.objs[rec.ui].subscription.endpoint)]
      ELSE stamped

AfterSendStampsEvaluationInstant(rec, outcome, at) ==
  LET tried == Attempt(rec, rec.ui, rec.ri, outcome, at)
  IN  CASE outcome = "Delivered" ->
             [tried EXCEPT
                !.objs[rec.ui].reminders[rec.ri].lastSentISO = toISOString(rec.now)]
        [] outcome = "Gone" ->
             [tried EXCEPT
                !.live = SpliceEndpoint(rec, rec.objs[rec.ui].subscription.endpoint)]
        [] OTHER -> tried

AfterSend(rec, outcome, at) ==
  LET tried == Attempt(rec, rec.ui, rec.ri, outcome, at)
  IN  CASE outcome = "Delivered" ->
             [tried EXCEPT
                !.objs[rec.ui].reminders[rec.ri].lastSentISO = toISOString(at)]
        [] outcome = "Gone" ->
             [tried EXCEPT
                !.live = SpliceEndpoint(rec, rec.objs[rec.ui].subscription.endpoint)]
        [] OTHER -> tried

\* the two loops from position <<ui, ri>> up to the next await: the
\* sendNotification of the next reminder that should fire, or writeDB(db) after
\* the last one; without VAPID keys each firing reminder throws and is caught
\* before anything is awaited
\* (rem.time || '00:00').split(':') at line 205 throws a TypeError when time is
\* not a string; the catch at line 273 logs it
EvaluationThrows(rem) == Len(rem.time) # 2

Evaluated(rec, ui, ri) == [rec EXCEPT !.evals = Append(@, <<ui, ri>>)]

RECURSIVE RunTickLoopAbortsOnError(_, _, _, _)
RunTickLoopAbortsOnError(rec, ui, ri, at) ==
  IF ui > Len(rec.objs)
  THEN CallWriteDB(rec, LiveData(rec))
  ELSE IF ri > Len(rec.objs[ui].reminders)
  THEN RunTickLoopAbortsOnError(rec, ui + 1, 1, at)
  ELSE IF EvaluationThrows(rec.objs[ui].reminders[ri])
  THEN CallWriteDB(Attempt(Evaluated(rec, ui, ri), ui, ri, "CheckError", at),
                   LiveData(rec))
  ELSE IF ~shouldFireReminder(rec.objs[ui].reminders[ri], rec.now)
  THEN RunTickLoopAbortsOnError(Evaluated(rec, ui, ri), ui, ri + 1, at)
  ELSE IF ~vapid
  THEN RunTickLoopAbortsOnError(
         Attempt(Evaluated(rec, ui, ri), ui, ri, "VapidMissing", at), ui, ri + 1, at)
  ELSE [Evaluated(rec, ui, ri) EXCEPT !.pc = "send", !.ui = ui, !.ri = ri]

RECURSIVE RunTickLoop(_, _, _, _)
RunTickLoop(rec, ui, ri, at) ==
  IF ui > Len(rec.objs)
  THEN CallWriteDB(rec, LiveData(rec))
  ELSE IF ri > Len(rec.objs[ui].reminders)
  THEN RunTickLoop(rec, ui + 1, 1, at)
  ELSE IF EvaluationThrows(rec.objs[ui].reminders[ri])
  THEN RunTickLoop(Attempt(Evaluated(rec, ui, ri), ui, ri, "CheckError", at),
                   ui, ri + 1, at)
  ELSE IF ~shouldFireReminder(rec.objs[ui].reminders[ri], rec.now)
  THEN RunTickLoop(Evaluated(rec, ui, ri), ui, ri + 1, at)
  ELSE IF ~vapid
  THEN RunTickLoop(Attempt(Evaluated(rec, ui, ri), ui, ri, "VapidMissing", at),
                   ui, ri + 1, at)
  ELSE [Evaluated(rec, ui, ri) EXCEPT !.pc = "send", !.ui = ui, !.ri = ri]

\* node-cron invokes the callback at the start of a minute
CronFire(p) ==
  /\ MayStart(p)
  /\ clock % MsPerMinute = 0
  /\ ~cronFired
  /\ cronFired' = TRUE
  /\ procs' = [procs EXCEPT ![p] = [IdleProc EXCEPT !.op = "tick", !.pc = "read"]]
  /\ UNCHANGED <<clock, vapid, dbPath, tmpPath, nextUserId, nextRemId, serial, hist,
                 harnessVars>>

TickRead(p) ==
  /\ procs[p].op = "tick"
  /\ procs[p].pc = "read"
  /\ procs' = [procs EXCEPT ![p] =
       RunTickLoop([Loaded(@, readDB(dbPath)) EXCEPT !.now = clock], 1, 1, clock)]
  /\ UNCHANGED <<clock, cronFired, vapid, dbPath, tmpPath, nextUserId, nextRemId,
                 serial, started, hist, harnessVars>>

\* the callback resumes after webpush.sendNotification has settled
TickSentWritesNow(p, outcome) ==
  /\ procs[p].op = "tick"
  /\ procs[p].pc = "send"
  /\ procs' = [procs EXCEPT ![p] =
       CallWriteDB(AfterSend(@, outcome, clock), LiveData(AfterSend(@, outcome, clock)))]
  /\ UNCHANGED <<clock, cronFired, vapid, dbPath, tmpPath, nextUserId, nextRemId,
                 serial, started, hist, harnessVars>>

TickSent(p, outcome) ==
  /\ procs[p].op = "tick"
  /\ procs[p].pc = "send"
  /\ procs' = [procs EXCEPT ![p] =
       RunTickLoop(AfterSend(@, outcome, clock), @.ui, @.ri + 1, clock)]
  /\ UNCHANGED <<clock, cronFired, vapid, dbPath, tmpPath, nextUserId, nextRemId,
                 serial, started, hist, harnessVars>>

----------------------------------------------------------------------------
(* POST /sendNotification, src/server.js:128-157                            *)

\* lines 143-152 once webpush.sendNotification has settled
AfterBroadcastSendRemovesOnFailure(rec, outcome, at) ==
  LET tried == Attempt(rec, rec.ui, 0, outcome, at)
  IN  IF outcome # "Delivered"
      THEN [tried EXCEPT
              !.live = SpliceEndpoint(rec, rec.objs[rec.ui].subscription.endpoint)]
      ELSE tried

AfterBroadcastSend(rec, outcome, at) ==
  LET tried == Attempt(rec, rec.ui, 0, outcome, at)
  IN  IF outcome = "Gone"
      THEN [tried EXCEPT
              !.live = SpliceEndpoint(rec, rec.objs[rec.ui].subscription.endpoint)]
      ELSE tried

\* the loop from user ui up to the next await
RunBroadcastLoop(rec, ui) ==
  IF ui > Len(rec.objs)
  THEN CallWriteDB(rec, LiveData(rec))
  ELSE [rec EXCEPT !.pc = "send", !.ui = ui, !.ri = 0]

SendNotificationStart(p) ==
  /\ MayStart(p)
  /\ procs' = [procs EXCEPT ![p] =
       IF ~vapid
       THEN [IdleProc EXCEPT !.op = "sendNotification", !.pc = "done",
                             !.resp.status = 500]
       ELSE [IdleProc EXCEPT !.op = "sendNotification", !.pc = "read"]]
  /\ UNCHANGED <<clock, cronFired, vapid, dbPath, tmpPath, nextUserId, nextRemId,
                 serial, hist, harnessVars>>

SendNotificationRead(p) ==
  /\ procs[p].op = "sendNotification"
  /\ procs[p].pc = "read"
  /\ procs' = [procs EXCEPT ![p] = RunBroadcastLoop(Loaded(@, readDB(dbPath)), 1)]
  /\ UNCHANGED <<clock, cronFired, vapid, dbPath, tmpPath, nextUserId, nextRemId,
                 serial, started, hist, harnessVars>>

SendNotificationSent(p, outcome) ==
  /\ procs[p].op = "sendNotification"
  /\ procs[p].pc = "send"
  /\ procs' = [procs EXCEPT ![p] =
       RunBroadcastLoop(AfterBroadcastSend(@, outcome, clock), @.ui + 1)]
  /\ UNCHANGED <<clock, cronFired, vapid, dbPath, tmpPath, nextUserId, nextRemId,
                 serial, started, hist, harnessVars>>

----------------------------------------------------------------------------
(* writeDB, src/server.js:57-62, one step per file-system effect            *)

\* fs.writeFile(tmp, ...) opens tmp with flag 'w': the file is created, or the
\* file already there is truncated
WriteOpen(p) ==
  /\ procs[p].pc = "open"
  /\ tmpPath' = EmptyFile
  /\ procs' = [procs EXCEPT ![p].pc = "write", ![p].fd = "tmp"]
  /\ UNCHANGED <<clock, cronFired, vapid, dbPath, nextUserId, nextRemId, serial, started, hist,
                 harnessVars>>

\* fs.writeFile writes the text through its descriptor and closes it
WriteData(p) ==
  /\ procs[p].pc = "write"
  /\ procs[p].fd = "tmp"
  /\ \E f \in WriteOutcomes(tmpPath, procs[p].out) : tmpPath' = f
  /\ procs' = [procs EXCEPT ![p].pc = "rename", ![p].fd = "none"]
  /\ UNCHANGED <<clock, cronFired, vapid, dbPath, nextUserId, nextRemId, serial,
                 started, hist, harnessVars>>

\* the same when another invocation has renamed the file since it was opened:
\* the descriptor follows the file, which is the one at DB_PATH, or, once a
\* later rename has replaced it, a file no path refers to
WriteDataRenamed(p) ==
  /\ procs[p].pc = "write"
  /\ procs[p].fd \in {"db", "orphan"}
  /\ \E f \in WriteOutcomes(dbPath, procs[p].out) :
       dbPath' = IF procs[p].fd = "db" THEN f ELSE dbPath
  /\ procs' = [procs EXCEPT ![p].pc = "rename", ![p].fd = "none"]
  /\ UNCHANGED <<clock, cronFired, vapid, tmpPath, nextUserId, nextRemId, serial,
                 started, hist, harnessVars>>

\* the users (id and endpoint) a cron callback spliced out of db.users after a
\* 410 or 404
GoneUsers(rec) ==
  IF rec.op # "tick" THEN {}
  ELSE {[id |-> rec.snap.users[rec.log[k].ui].id,
         endpoint |-> rec.snap.users[rec.log[k].ui].subscription.endpoint] :
          k \in {n \in 1 .. Len(rec.log) : rec.log[n].outcome = "Gone"}}

\* the invocation once writeDB has resolved: a handler responds
Returned(rec) ==
  [rec EXCEPT !.pc = "done",
              !.resp.status = IF rec.op = "tick" THEN 0 ELSE 200]

\* fs.rename(tmp, DB_PATH) with tmp present
WriteRename(p) ==
  /\ procs[p].pc = "rename"
  /\ tmpPath.exists
  /\ dbPath' = tmpPath
  /\ tmpPath' = NoFile
  /\ procs' = [q \in ProcIds |->
       IF q = p
       THEN Returned(procs[p])
       ELSE [procs[q] EXCEPT !.fd = CASE @ = "tmp" -> "db"
                                      [] @ = "db" -> "orphan"
                                      [] OTHER -> @]]
  /\ hist' = [hist EXCEPT !.removed = @ \cup GoneUsers(procs[p])]
  /\ UNCHANGED <<clock, cronFired, vapid, nextUserId, nextRemId, serial, started,
                 harnessVars>>

\* fs.rename(tmp, DB_PATH) with tmp absent rejects with ENOENT. The cron callback
\* catches it (line 280). A handler does not: the rejection is unhandled, and
\* either the process exits (every invocation in flight is lost; the platform
\* starts the server again) or the framework answers 500.
WriteRenameFails(p, exits) ==
  /\ procs[p].pc = "rename"
  /\ ~tmpPath.exists
  /\ procs[p].op = "tick" => ~exits
  /\ procs' =
       IF procs[p].op = "tick"
       THEN [procs EXCEPT ![p] =
               [Attempt(@, 0, 0, "CronError", clock) EXCEPT !.pc = "done"]]
       ELSE IF exits
       THEN [q \in ProcIds |-> IdleProc]
       ELSE [procs EXCEPT ![p].pc = "done", ![p].resp.status = 500]
  /\ hist' = [hist EXCEPT !.removed = @ \cup GoneUsers(procs[p])]
  /\ UNCHANGED <<clock, cronFired, vapid, dbPath, tmpPath, nextUserId, nextRemId,
                 serial, started, harnessVars>>

\* the invocation is over
Finish(p) ==
  /\ procs[p].pc = "done"
  /\ procs' = [procs EXCEPT ![p] = IdleProc]
  /\ UNCHANGED <<clock, cronFired, vapid, dbPath, tmpPath, nextUserId, nextRemId,
                 serial, started, hist, harnessVars>>

----------------------------------------------------------------------------
(* Time                                                                    *)

\* time passes; at the start of a minute the cron callback is invoked first
Advance ==
  /\ clock < ClockStart
               + (IF serial THEN MaxClockSteps ELSE MaxClockStepsOverlapping) * ClockStepMs
  /\ clock % MsPerMinute = 0 => cronFired
  /\ clock' = clock + ClockStepMs
  /\ cronFired' = FALSE
  /\ UNCHANGED <<vapid, dbPath, tmpPath, procs, nextUserId, nextRemId, serial, started, hist,
                 harnessVars>>

----------------------------------------------------------------------------
(* Specifications                                                          *)

HarnessOff ==
  /\ mRem = NewReminder(0, NoSpec)
  /\ mNow = 0
  /\ mResult = FALSE
  /\ mPhase = "off"

\* the server starts at ClockStart over the store file it finds
Started(data) ==
  /\ clock = ClockStart
  /\ cronFired = FALSE
  /\ dbPath = IF data = EmptyDB THEN NoFile ELSE JsonFile(data)
  /\ tmpPath = NoFile
  /\ procs = [p \in ProcIds |-> IdleProc]
  /\ nextUserId = Len(data.users) + 1
  /\ nextRemId = Len(RemindersOf(data)) + 1
  /\ started = 0
  /\ hist = [removed |-> {}, registered |-> {}]

\* a start over a store that an earlier /addReminder call may have written;
\* invocations overlap
Init ==
  /\ \E data \in SeedStores(MaxSeedRemindersOverlapping) : Started(data)
  /\ vapid \in BOOLEAN
  /\ serial = FALSE
  /\ HarnessOff

\* a first deployment; invocations run one after another
InitStore ==
  /\ Started(EmptyDB)
  /\ vapid \in BOOLEAN
  /\ serial = TRUE
  /\ HarnessOff

\* a start over a store that earlier /addReminder calls have written;
\* invocations run one after another
InitTick ==
  /\ \E data \in SeedStores(MaxSeedReminders) : Started(data)
  /\ vapid \in BOOLEAN
  /\ serial = TRUE
  /\ HarnessOff

Handlers ==
  \/ \E p \in ProcIds, sub \in SubscriptionInputs : SubscribeStart(p, sub)
  \/ \E p \in ProcIds : SubscribeRead(p)
  \/ \E p \in ProcIds, sub \in SubscriptionInputs, spec \in ReminderSpecInputs :
       AddReminderStart(p, sub, spec)
  \/ \E p \in ProcIds : AddReminderRead(p)
  \/ \E p \in ProcIds, id \in 0 .. MaxRemIds : DeleteReminderStart(p, id)
  \/ \E p \in ProcIds : DeleteReminderRead(p)
  \/ \E p \in ProcIds : SendNotificationStart(p)
  \/ \E p \in ProcIds : SendNotificationRead(p)
  \/ \E p \in ProcIds, outcome \in Outcomes : SendNotificationSent(p, outcome)

Scheduler ==
  \/ \E p \in ProcIds : CronFire(p)
  \/ \E p \in ProcIds : TickRead(p)
  \/ \E p \in ProcIds, outcome \in Outcomes : TickSent(p, outcome)
  \/ Advance

\* writeDB when no other writeDB is in flight
WriteAlone ==
  \/ \E p \in ProcIds : WriteOpen(p)
  \/ \E p \in ProcIds : WriteData(p)
  \/ \E p \in ProcIds : WriteRename(p)
  \/ \E p \in ProcIds : Finish(p)

\* what only overlapping writeDB calls can do
WriteOverlapped ==
  \/ \E p \in ProcIds : WriteDataRenamed(p)
  \/ \E p \in ProcIds, exits \in BOOLEAN : WriteRenameFails(p, exits)

Next == Handlers \/ Scheduler \/ WriteAlone \/ WriteOverlapped

NextStore == Handlers \/ WriteAlone

NextTick == Scheduler \/ WriteAlone

\* request handlers and cron callbacks overlapping at their awaits
Spec == Init /\ [][Next]_vars

\* request handlers run one after another
SpecStore == InitStore /\ [][NextStore]_vars

\* cron callbacks run one after another, minute after minute
SpecTick == InitTick /\ [][NextTick]_vars

\* a start over a store file that cannot be read or parsed: absent, empty, or
\* holding the bytes of two overlapped writes; invocations run one after another
InitUnreadable ==
  /\ clock = ClockStart
  /\ cronFired = FALSE
  /\ dbPath \in {NoFile, EmptyFile, GarbledFile}
  /\ tmpPath = NoFile
  /\ procs = [p \in ProcIds |-> IdleProc]
  /\ nextUserId = 1
  /\ nextRemId = 1
  /\ started = 0
  /\ hist = [removed |-> {}, registered |-> {}]
  /\ vapid \in BOOLEAN
  /\ serial = TRUE
  /\ HarnessOff

\* the server receiving /subscribe calls only, the cron callback running each
\* minute (no reminder is stored, so no delivery is awaited)
NextSubscribing ==
  \/ \E p \in ProcIds, sub \in SubscriptionInputs : SubscribeStart(p, sub)
  \/ \E p \in ProcIds : SubscribeRead(p)
  \/ \E p \in ProcIds : CronFire(p)
  \/ \E p \in ProcIds : TickRead(p)
  \/ Advance
  \/ WriteAlone

SpecUnreadable == InitUnreadable /\ [][NextSubscribing]_vars

\* a reminder whose minute begins one minute after the server's start
DueNextMinute ==
  [time |-> <<getHours(ClockStart + MsPerMinute), getMinutes(ClockStart + MsPerMinute)>>,
   timezoneOffsetMinutes |-> 0, repeatEveryMinutes |-> 0, repeatUntil |-> NULL]

\* a start, one minute before its reminder's minute, over a store one
\* /addReminder call has written; invocations overlap
InitBeforeMinute ==
  /\ \E sub \in SeedSubscriptions : Started(WithReminder(EmptyDB, sub, DueNextMinute))
  /\ vapid \in BOOLEAN
  /\ serial = FALSE
  /\ HarnessOff

NextTicksOverlapping == Scheduler \/ WriteAlone \/ WriteOverlapped

\* cron callbacks that overlap: one is still suspended at an await when the
\* next is invoked
SpecBeforeMinute == InitBeforeMinute /\ [][NextTicksOverlapping]_vars

----------------------------------------------------------------------------
(* Matcher harness: shouldFireReminder applied to bounded inputs            *)

\* "HH:MM" values of time and repeatUntil
TimeInputs == {<<0, 0>>, <<8, 0>>, <<23, 30>>}
UntilInputs == {NULL, <<7, 59>>, <<8, 0>>, <<23, 59>>}
\* timezoneOffsetMinutes as the browser's getTimezoneOffset() reports it
TzInputs == {-120, 0, 330}
RepeatInputs == {0, 1, 7, 30}
\* age of lastSentISO relative to the evaluation instant (ms); a negative age
\* is a lastSentISO later than nowUtcMs
LastSentAges == {-1000, 30 * 1000, 70 * 1000 - 1, 70 * 1000, MsPerDay}
\* the UTC day the evaluation instants are drawn from
EvalDay == 3
\* offsets within a minute (ms)
SubMinuteInputs == {0, 30 * 1000, 59999}

HarnessRem(t, tz, n, u, last) ==
  [id |-> 1, time |-> t, timezoneOffsetMinutes |-> tz, repeatEveryMinutes |-> n,
   repeatUntil |-> u, lastSentISO |-> last]

MInit ==
  /\ Started(EmptyDB)
  /\ vapid = TRUE
  /\ serial = TRUE
  /\ mPhase = "input"
  /\ mResult = FALSE
  /\ \E minute \in 0 .. (24 * 60 - 1), sub \in SubMinuteInputs :
       mNow = NewDate(EvalDay, 0, minute, 0, sub)
  /\ \E t \in TimeInputs, tz \in TzInputs, n \in RepeatInputs, u \in UntilInputs,
        last \in {NULL} \cup {toISOString(mNow - a) : a \in LastSentAges} :
       mRem = HarnessRem(t, tz, n, u, last)

Evaluate ==
  /\ mPhase = "input"
  /\ mPhase' = "evaluated"
  /\ mResult' = shouldFireReminder(mRem, mNow)
  /\ UNCHANGED <<mRem, mNow, sysVars>>

MNext == Evaluate

SpecMatcher == MInit /\ [][MNext]_vars

----------------------------------------------------------------------------
(* Properties of the matcher                                               *)

\* the subscriber-local minute of the day of an instant (local = UTC - offset)
LocalMinuteOfDay(rem, nowUtcMs) ==
  ((nowUtcMs - rem.timezoneOffsetMinutes * MsPerMinute) \div MsPerMinute) % (24 * 60)

MinuteOfDay(hhmm) == hhmm[1] * 60 + hhmm[2]

SentWithin70s(rem, nowUtcMs) ==
  /\ rem.lastSentISO # NULL
  /\ nowUtcMs - DateParse(rem.lastSentISO) < 70 * MsPerSecond

EarlierUntil(rem) ==
  /\ rem.repeatUntil # NULL
  /\ MinuteOfDay(rem.repeatUntil) < MinuteOfDay(rem.time)

\* C1: a reminder with repeatEveryMinutes = 0 fires only at the subscriber-local
\* minute equal to its time; at such an instant it does not fire when lastSentISO
\* is set and less than 70 seconds old, and fires when lastSentISO is unset or at
\* least 70 seconds old.
C1_NonRepeatingFiresAtTimeWithDebounce ==
  (mPhase = "evaluated" /\ mRem.repeatEveryMinutes = 0) =>
    (mResult <=> /\ LocalMinuteOfDay(mRem, mNow) = MinuteOfDay(mRem.time)
                 /\ ~SentWithin70s(mRem, mNow))

\* C1 witness: {time: "08:00", offset 0, no repeat} sent at 08:00:00 is evaluated
\* at 08:00:30 and does not fire.
C1_Witness ==
  /\ mPhase = "evaluated"
  /\ mRem.repeatEveryMinutes = 0
  /\ mRem.time = <<8, 0>>
  /\ mRem.timezoneOffsetMinutes = 0
  /\ mNow = NewDate(EvalDay, 8, 0, 30, 0)
  /\ mRem.lastSentISO = toISOString(NewDate(EvalDay, 8, 0, 0, 0))
  /\ mResult = FALSE

\* C2: a reminder with repeatEveryMinutes = N > 0, no repeatUntil and no
\* lastSentISO fires exactly at the minutes of the subscriber's local day whose
\* whole-minute distance from that day's start time is 0 or a positive multiple
\* of N.
C2_RepeatingFiresEveryNthMinute ==
  (/\ mPhase = "evaluated"
   /\ mRem.repeatEveryMinutes > 0
   /\ mRem.repeatUntil = NULL
   /\ mRem.lastSentISO = NULL) =>
    (mResult <=>
       /\ LocalMinuteOfDay(mRem, mNow) >= MinuteOfDay(mRem.time)
       /\ (LocalMinuteOfDay(mRem, mNow) - MinuteOfDay(mRem.time))
            % mRem.repeatEveryMinutes = 0)

\* C2 witness: a reminder repeating every 7 minutes fires 14 minutes and 30
\* seconds after its start, in a zone with a non-zero offset.
C2_Witness ==
  /\ mPhase = "evaluated"
  /\ mRem.repeatEveryMinutes = 7
  /\ mRem.repeatUntil = NULL
  /\ mRem.lastSentISO = NULL
  /\ mRem.timezoneOffsetMinutes = -120
  /\ LocalMinuteOfDay(mRem, mNow) = MinuteOfDay(mRem.time) + 14
  /\ getSeconds(mNow) = 30
  /\ mResult = TRUE

\* C3 as stated: a reminder whose repeatUntil is earlier in the day than its time
\* never fires, whatever its repeatEveryMinutes, offset and lastSentISO.
C3_EarlierUntilNeverFires ==
  (mPhase = "evaluated" /\ EarlierUntil(mRem)) => mResult = FALSE

\* C3 amended: a repeating reminder (repeatEveryMinutes > 0) whose repeatUntil is
\* earlier in the day than its time never fires.
C3_RepeatingEarlierUntilNeverFires ==
  (mPhase = "evaluated" /\ EarlierUntil(mRem) /\ mRem.repeatEveryMinutes > 0) =>
    mResult = FALSE

\* C3 witness: a never-sent repeating reminder with repeatUntil before time is
\* evaluated at its own start minute and does not fire.
C3_Witness ==
  /\ mPhase = "evaluated"
  /\ EarlierUntil(mRem)
  /\ mRem.repeatEveryMinutes > 0
  /\ mRem.lastSentISO = NULL
  /\ LocalMinuteOfDay(mRem, mNow) = MinuteOfDay(mRem.time)
  /\ mResult = FALSE

----------------------------------------------------------------------------
(* Properties of the store, the handlers and the cron callback             *)

\* the store a reader of DB_PATH gets
Persisted == readDB(dbPath)

UserIds(data) == {data.users[i].id : i \in 1 .. Len(data.users)}

Positions(data) ==
  UNION {{<<i, j>> : j \in 1 .. Len(data.users[i].reminders)} :
           i \in 1 .. Len(data.users)}

ReminderAt(data, pos) == data.users[pos[1]].reminders[pos[2]]

Outcome(rec, pos, outcome) ==
  \E k \in 1 .. Len(rec.log) :
    /\ rec.log[k].ui = pos[1]
    /\ rec.log[k].ri = pos[2]
    /\ rec.log[k].outcome = outcome

Returning(p, op) == procs[p].op = op /\ procs[p].pc = "done"

\* the reminder is due at the instant by its schedule alone: its time for a
\* non-repeating reminder; the start, and every N-th minute after it up to and
\* including the minute of repeatUntil, for a repeating one
Due(rem, nowUtcMs) ==
  LET local == LocalMinuteOfDay(rem, nowUtcMs)
      start == MinuteOfDay(rem.time)
  IN  IF rem.repeatEveryMinutes <= 0
      THEN local = start
      ELSE /\ local >= start
           /\ (local - start) % rem.repeatEveryMinutes = 0
           /\ rem.repeatUntil # NULL => local <= MinuteOfDay(rem.repeatUntil)

\* C4 as stated: once a cron callback in which a delivery to a user failed with
\* 410 or 404 has completed, that user (with its reminders) is not in the
\* persisted store, so that no later cron callback reads it, whatever overlaps,
\* unless /subscribe or /addReminder was called with its endpoint.
C4_RemovedUserStaysRemoved ==
  \A u \in hist.removed :
    u.endpoint \notin hist.registered => u.id \notin UserIds(Persisted)

\* C5: in the store a cron callback leaves, every reminder it read whose
\* delivery it did not see accepted (not matched, failed with 410/404, failed
\* otherwise, or thrown for missing VAPID keys) has the lastSentISO it was read
\* with.
C5_OnlyDeliveredChangesLastSent ==
  \A p \in ProcIds :
    Returning(p, "tick") =>
      \A pos \in Positions(procs[p].snap) :
        \A k \in 1 .. Len(Persisted.users) :
          (/\ ~Outcome(procs[p], pos, "Delivered")
           /\ Persisted.users[k].id = procs[p].snap.users[pos[1]].id) =>
            Persisted.users[k].reminders[pos[2]].lastSentISO
              = ReminderAt(procs[p].snap, pos).lastSentISO

\* C5 witness: a cron callback has returned after one delivery failed
\* transiently and another was accepted; the first reminder is stored as it was
\* read and the second carries a lastSentISO.
C5_Witness ==
  \E p \in ProcIds :
    /\ Returning(p, "tick")
    /\ \E pos \in Positions(procs[p].snap), other \in Positions(procs[p].snap) :
         /\ Outcome(procs[p], pos, "Transient")
         /\ ~Outcome(procs[p], pos, "Delivered")
         /\ Outcome(procs[p], other, "Delivered")
         /\ Len(Persisted.users) = Len(procs[p].snap.users)
         /\ ReminderAt(Persisted, pos) = ReminderAt(procs[p].snap, pos)
         /\ ReminderAt(Persisted, other).lastSentISO # NULL

\* C6: with the calls run one after another, the persisted store never holds
\* two users with one endpoint, and holds exactly one user with the endpoint of
\* a /subscribe or /addReminder call that has returned; when /subscribe returns
\* for an endpoint the store already held, it answers that user's id and the
\* store differs from the one read only in that user's subscription.
C6_UpsertKeepsOneUserPerEndpoint ==
  /\ \A i, j \in 1 .. Len(Persisted.users) :
       Persisted.users[i].subscription.endpoint
         = Persisted.users[j].subscription.endpoint => i = j
  /\ \A p \in ProcIds :
       (/\ procs[p].pc = "done"
        /\ procs[p].op \in {"subscribe", "addReminder"}
        /\ procs[p].resp.status = 200) =>
         Cardinality({i \in 1 .. Len(Persisted.users) :
                        Persisted.users[i].subscription.endpoint
                          = procs[p].arg.subscription.endpoint}) = 1
  /\ \A p \in ProcIds :
       (Returning(p, "subscribe") /\ procs[p].resp.status = 200) =>
         LET before == procs[p].snap
             sub == procs[p].arg.subscription
         IN  \A i \in 1 .. Len(before.users) :
               before.users[i].subscription.endpoint = sub.endpoint =>
                 /\ procs[p].resp.userId = before.users[i].id
                 /\ Len(Persisted.users) = Len(before.users)
                 /\ Persisted.users[i].id = before.users[i].id
                 /\ Persisted.users[i].reminders = before.users[i].reminders
                 /\ Persisted.users[i].subscription = sub
                 /\ \A k \in 1 .. Len(before.users) :
                      k # i => Persisted.users[k] = before.users[k]

\* C6 witness: /subscribe has returned for a stored endpoint with new keys; the
\* user holds a reminder and another user is stored.
C6_Witness ==
  \E p \in ProcIds :
    /\ Returning(p, "subscribe")
    /\ procs[p].resp.status = 200
    /\ Len(procs[p].snap.users) = 2
    /\ \E i \in 1 .. Len(procs[p].snap.users) :
         /\ procs[p].snap.users[i].subscription.endpoint
              = procs[p].arg.subscription.endpoint
         /\ procs[p].snap.users[i].subscription.keys
              # procs[p].arg.subscription.keys
         /\ procs[p].snap.users[i].reminders # <<>>
         /\ procs[p].resp.userId = procs[p].snap.users[i].id

\* C7: when /deleteReminder returns for an id no stored reminder had, it answers
\* 404, has not called writeDB, and the store is as it was read; when it returns
\* for an id a reminder had, it answers 200 and the store is the one read less
\* exactly that reminder.
C7_DeleteRemovesOneOrNothing ==
  \A p \in ProcIds :
    (Returning(p, "deleteReminder") /\ procs[p].arg.id # 0) =>
      LET before == procs[p].snap
          held == {pos \in Positions(before) :
                     ReminderAt(before, pos).id = procs[p].arg.id}
      IN  IF held = {}
          THEN /\ procs[p].resp.status = 404
               /\ procs[p].writes = 0
               /\ dbPath = (IF before = EmptyDB THEN dbPath ELSE JsonFile(before))
               /\ Persisted = before
          ELSE /\ procs[p].resp.status = 200
               /\ Len(Persisted.users) = Len(before.users)
               /\ Len(RemindersOf(Persisted)) = Len(RemindersOf(before)) - 1
               /\ \E pos \in held :
                    \A i \in 1 .. Len(before.users) :
                      /\ Persisted.users[i].id = before.users[i].id
                      /\ Persisted.users[i].subscription = before.users[i].subscription
                      /\ Persisted.users[i].reminders =
                           IF i = pos[1]
                           THEN RemoveAt(before.users[i].reminders, pos[2])
                           ELSE before.users[i].reminders

\* C7 witness: /deleteReminder has answered 404 for an id that is not in a store
\* holding another reminder.
C7_Witness ==
  \E p \in ProcIds :
    /\ Returning(p, "deleteReminder")
    /\ procs[p].arg.id # 0
    /\ procs[p].resp.status = 404
    /\ RemindersOf(procs[p].snap) # <<>>
    /\ Persisted = procs[p].snap

\* C8 as stated: from one state of the persisted store to the next, no reminder
\* that stays stored has its lastSentISO unset again or moved back.
C8_LastSentNeverDecreases ==
  [][\A pos \in Positions(Persisted) : \A pos2 \in Positions(Persisted') :
       (/\ ReminderAt(Persisted, pos).id = ReminderAt(Persisted', pos2).id
        /\ ReminderAt(Persisted, pos).lastSentISO # NULL) =>
         /\ ReminderAt(Persisted', pos2).lastSentISO # NULL
         /\ DateParse(ReminderAt(Persisted', pos2).lastSentISO)
              >= DateParse(ReminderAt(Persisted, pos).lastSentISO)]_vars

\* C9 as stated: the file at DB_PATH, when it exists, always holds one complete
\* state, and every writeDB call ends by renaming its own full text into place.
C9_AtomicReplace ==
  /\ [](dbPath.exists => dbPath.kind = "json")
  /\ [][\A p \in ProcIds :
          (procs[p].pc = "rename" /\ procs'[p].pc # "rename") =>
            (procs'[p].pc = "done" /\ dbPath' = JsonFile(procs[p].out))]_vars

\* C10 as stated: a cron callback all of whose deliveries were accepted has
\* delivered every reminder that is due at its minute: a repeating one at its
\* start and every N-th minute after it up to and including the minute of
\* repeatUntil, a non-repeating one at its time.
C10_DeliveredEveryDueMinute ==
  \A p \in ProcIds :
    (/\ Returning(p, "tick")
     /\ \A k \in 1 .. Len(procs[p].log) : procs[p].log[k].outcome = "Delivered") =>
      \A pos \in Positions(procs[p].snap) :
        ~EvaluationThrows(ReminderAt(procs[p].snap, pos)) =>
          (Due(ReminderAt(procs[p].snap, pos), procs[p].now)
             <=> Outcome(procs[p], pos, "Delivered"))

\* the invocation has made a delivery attempt for the reminder with the id
AttemptedId(rec, id) ==
  \E k \in 1 .. Len(rec.log) :
    /\ rec.log[k].ri > 0
    /\ ReminderAt(rec.snap, <<rec.log[k].ui, rec.log[k].ri>>).id = id

\* the cron callback has left its loops: every reminder it read was looked at
PassOver(rec) ==
  rec.op = "tick" /\ rec.pc \in {"open", "write", "rename", "done"}

\* C11 as stated: when a delivery in a cron callback failed transiently, the
\* callback of the next minute, reading the store the first one wrote (user and
\* reminders retained), attempts the delivery of that reminder again, for
\* repeating and non-repeating reminders alike.
C11_TransientRetriedNextTick ==
  \A p, q \in ProcIds :
    (/\ Returning(p, "tick")
     /\ PassOver(procs[q])
     /\ procs[q].now = procs[p].now + MsPerMinute
     /\ procs[q].snap = procs[p].out) =>
      \A pos \in Positions(procs[p].snap) :
        Outcome(procs[p], pos, "Transient") =>
          AttemptedId(procs[q], ReminderAt(procs[p].snap, pos).id)

\* the minute of the day of the instant with the offset added to UTC
AddedMinuteOfDay(rem, nowUtcMs) ==
  ((nowUtcMs + rem.timezoneOffsetMinutes * MsPerMinute) \div MsPerMinute) % (24 * 60)

\* C12 as stated: the matcher compares time against the hour and minute of
\* nowUtc plus timezoneOffsetMinutes: a non-repeating reminder fires only when
\* that minute is its time, a repeating one only at or after its time on that
\* clock.
C12_OffsetAddedToUtc ==
  (mPhase = "evaluated" /\ mResult) =>
    IF mRem.repeatEveryMinutes = 0
    THEN AddedMinuteOfDay(mRem, mNow) = MinuteOfDay(mRem.time)
    ELSE AddedMinuteOfDay(mRem, mNow) >= MinuteOfDay(mRem.time)

\* C12 amended: the matcher compares time against the hour and minute of nowUtc
\* minus timezoneOffsetMinutes: a reminder fires only when that minute is its
\* time (non-repeating) or a multiple of repeatEveryMinutes after its time
\* (repeating), and a never-sent non-repeating reminder fires whenever that
\* minute is its time.
C12_OffsetSubtractedFromUtc ==
  mPhase = "evaluated" =>
    /\ mResult =>
         IF mRem.repeatEveryMinutes = 0
         THEN LocalMinuteOfDay(mRem, mNow) = MinuteOfDay(mRem.time)
         ELSE /\ LocalMinuteOfDay(mRem, mNow) >= MinuteOfDay(mRem.time)
              /\ (LocalMinuteOfDay(mRem, mNow) - MinuteOfDay(mRem.time))
                   % mRem.repeatEveryMinutes = 0
    /\ (/\ mRem.repeatEveryMinutes = 0
        /\ mRem.lastSentISO = NULL
        /\ LocalMinuteOfDay(mRem, mNow) = MinuteOfDay(mRem.time)) => mResult

\* C12 witness: {time: "08:00", offset 330, no repeat} fires at 13:30 UTC, which
\* is 08:00 with the offset subtracted and 19:00 with it added.
C12_Witness ==
  /\ mPhase = "evaluated"
  /\ mRem.repeatEveryMinutes = 0
  /\ mRem.time = <<8, 0>>
  /\ mRem.timezoneOffsetMinutes = 330
  /\ getHours(mNow) = 13
  /\ getMinutes(mNow) = 30
  /\ AddedMinuteOfDay(mRem, mNow) = 19 * 60
  /\ mResult = TRUE

\* the users from position k on whose delivery attempt, the k-th of the log, did
\* not fail with 410 or 404
RECURSIVE NotGone(_, _, _)
NotGone(users, log, k) ==
  IF k > Len(users) THEN <<>>
  ELSE IF log[k].outcome = "Gone" THEN NotGone(users, log, k + 1)
  ELSE <<users[k]>> \o NotGone(users, log, k + 1)

\* C13: when /sendNotification has answered 200, it has made one delivery
\* attempt per user of the store it read, in order, whatever the user's
\* reminders; the persisted store holds exactly the users whose attempt did not
\* fail with 410 or 404, each as it was read (same reminders, same lastSentISO).
C13_BroadcastOnePerUserRemovesGone ==
  \A p \in ProcIds :
    (Returning(p, "sendNotification") /\ procs[p].resp.status = 200) =>
      /\ Len(procs[p].log) = Len(procs[p].snap.users)
      /\ \A k \in 1 .. Len(procs[p].log) :
           procs[p].log[k].ui = k /\ procs[p].log[k].ri = 0
      /\ Persisted.users = NotGone(procs[p].snap.users, procs[p].log, 1)

\* C13 witness: a broadcast over two users, one of them without reminders and
\* one with a reminder, has returned; one attempt failed with 410/404 and the
\* other failed otherwise, and only the second user is stored.
C13_Witness ==
  \E p \in ProcIds :
    /\ Returning(p, "sendNotification")
    /\ procs[p].resp.status = 200
    /\ Len(procs[p].snap.users) = 2
    /\ procs[p].snap.users[1].reminders = <<>>
    /\ procs[p].snap.users[2].reminders # <<>>
    /\ procs[p].log[1].outcome = "Gone"
    /\ procs[p].log[2].outcome = "Transient"
    /\ Persisted.users = <<procs[p].snap.users[2]>>

\* C14 as stated: no two cron callbacks whose evaluation instants lie in the
\* same minute both deliver the same non-repeating reminder, also when the
\* second starts while the first is awaiting its delivery.
C14_NoDoubleDeliveryInMinute ==
  \A p, q \in ProcIds :
    (/\ p # q
     /\ procs[p].op = "tick"
     /\ procs[q].op = "tick"
     /\ procs[p].now \div MsPerMinute = procs[q].now \div MsPerMinute) =>
      \A pos \in Positions(procs[p].snap), pos2 \in Positions(procs[q].snap) :
        (/\ ReminderAt(procs[p].snap, pos).id = ReminderAt(procs[q].snap, pos2).id
         /\ ReminderAt(procs[p].snap, pos).repeatEveryMinutes = 0) =>
          ~(/\ Outcome(procs[p], pos, "Delivered")
            /\ Outcome(procs[q], pos2, "Delivered"))

RemIds(data) == {RemindersOf(data)[i].id : i \in 1 .. Len(RemindersOf(data))}

\* the id of the reminder an /addReminder call acknowledged
AddedId(rec) == rec.resp.reminders[Len(rec.resp.reminders)].id

\* /addReminder has answered 200 and a cron callback has returned without
\* error, and no other invocation ran since the start
BothCompleted(p, q) ==
  /\ Returning(p, "addReminder")
  /\ procs[p].resp.status = 200
  /\ Returning(q, "tick")
  /\ \A k \in 1 .. Len(procs[q].log) : procs[q].log[k].outcome # "CronError"
  /\ started = 2

\* the callback did not remove the user the reminder was added to
KeptUserOf(p, q) ==
  \A u \in GoneUsers(procs[q]) : u.endpoint # procs[p].arg.subscription.endpoint

\* C15: when an /addReminder call and a cron callback have both completed
\* without error, the acknowledged reminder was handed to writeDB; it can be
\* missing from the persisted store although its user was not removed, and is
\* then missing because the callback had read the store before the handler's
\* write and wrote its own state afterwards.
C15_AddedReminderLostOnlyByStaleRead ==
  \A p, q \in ProcIds :
    BothCompleted(p, q) =>
      /\ AddedId(procs[p]) \in RemIds(procs[p].out)
      /\ (KeptUserOf(p, q) /\ AddedId(procs[p]) \notin RemIds(Persisted)) =>
           AddedId(procs[p]) \notin RemIds(procs[q].snap)

\* C15 witness: /addReminder has answered 200 with the new reminder and the cron
\* callback has returned without error and without removing a user; the store
\* file is a complete state, the callback's, and lacks the acknowledged
\* reminder.
C15_Witness ==
  \E p, q \in ProcIds :
    /\ BothCompleted(p, q)
    /\ GoneUsers(procs[q]) = {}
    /\ dbPath = JsonFile(procs[q].out)
    /\ AddedId(procs[p]) \notin RemIds(Persisted)

\* the positions of the store from user i on, users in order, each user's
\* reminders in order
RECURSIVE PositionsFrom(_, _)
PositionsFrom(data, i) ==
  IF i > Len(data.users) THEN <<>>
  ELSE [j \in 1 .. Len(data.users[i].reminders) |-> <<i, j>>]
         \o PositionsFrom(data, i + 1)

Attempts(rec, pos) ==
  Cardinality({k \in 1 .. Len(rec.log) :
                 rec.log[k].ui = pos[1] /\ rec.log[k].ri = pos[2]})

\* C16: when a cron callback has left its loops, shouldFireReminder has been
\* called once for each reminder of each user of the store it read, in order,
\* whatever failed, threw or was removed on the way; each reminder whose
\* evaluation threw or returned true has one logged attempt and every other
\* reminder none.
C16_EveryReminderEvaluatedOnce ==
  \A p \in ProcIds :
    PassOver(procs[p]) =>
      /\ procs[p].evals = PositionsFrom(procs[p].snap, 1)
      /\ \A pos \in Positions(procs[p].snap) :
           Attempts(procs[p], pos) =
             IF EvaluationThrows(ReminderAt(procs[p].snap, pos)) THEN 1
             ELSE IF shouldFireReminder(ReminderAt(procs[p].snap, pos), procs[p].now)
             THEN 1 ELSE 0

\* C16 witness: a cron callback has finished its pass over two users; the first
\* user's reminder could not be evaluated or its delivery failed with 410/404,
\* and the second user's reminder was still evaluated and delivered.
C16_Witness ==
  \E p \in ProcIds :
    /\ PassOver(procs[p])
    /\ Len(procs[p].snap.users) = 2
    /\ \/ Outcome(procs[p], <<1, 1>>, "CheckError")
       \/ Outcome(procs[p], <<1, 1>>, "Gone")
    /\ Outcome(procs[p], <<2, 1>>, "Delivered")
    /\ procs[p].evals = <<<<1, 1>>, <<2, 1>>>>

\* the lastSentISO values the store holds for the reminder the callback read at
\* the position (none when its user is no longer stored)
StoredLastSent(rec, pos) ==
  {Persisted.users[k].reminders[pos[2]].lastSentISO :
     k \in {n \in 1 .. Len(Persisted.users) :
              Persisted.users[n].id = rec.snap.users[pos[1]].id}}

\* C17 as stated: in the store a cron callback leaves, a reminder it delivered
\* has lastSentISO equal to the callback's evaluation instant nowUtcMs.
C17_LastSentIsEvaluationInstant ==
  \A p \in ProcIds :
    Returning(p, "tick") =>
      \A pos \in Positions(procs[p].snap) :
        Outcome(procs[p], pos, "Delivered") =>
          \A iso \in StoredLastSent(procs[p], pos) : iso = toISOString(procs[p].now)

\* C17 amended: in the store a cron callback leaves, a reminder it delivered has
\* lastSentISO equal to the instant read when its delivery call returned, which
\* is at or after the evaluation instant nowUtcMs.
C17_LastSentIsDeliveryReturnInstant ==
  \A p \in ProcIds :
    Returning(p, "tick") =>
      \A k \in 1 .. Len(procs[p].log) :
        procs[p].log[k].outcome = "Delivered" =>
          /\ procs[p].log[k].at >= procs[p].now
          /\ \A iso \in StoredLastSent(procs[p], <<procs[p].log[k].ui, procs[p].log[k].ri>>) :
               iso = toISOString(procs[p].log[k].at)

\* C17 witness: a cron callback has returned whose delivery was accepted after
\* its evaluation instant; the stored lastSentISO is the later instant.
C17_Witness ==
  \E p \in ProcIds :
    /\ Returning(p, "tick")
    /\ \E k \in 1 .. Len(procs[p].log) :
         /\ procs[p].log[k].outcome = "Delivered"
         /\ procs[p].log[k].at > procs[p].now
         /\ StoredLastSent(procs[p], <<procs[p].log[k].ui, procs[p].log[k].ri>>)
              = {toISOString(procs[p].log[k].at)}

\* C18: a cron callback calls writeDB once, and only when it has left its loops:
\* before that (reading, or awaiting a delivery) it has made no call and neither
\* the store file nor the temporary file changes; the store file changes only
\* by the rename of a callback that has evaluated every reminder it read; a
\* callback that has returned has made exactly one call.
C18_TickWritesOnceAfterPass ==
  /\ [](\A p \in ProcIds :
          procs[p].op = "tick" =>
            /\ procs[p].writes = (IF PassOver(procs[p]) THEN 1 ELSE 0)
            /\ PassOver(procs[p]) =>
                 procs[p].evals = PositionsFrom(procs[p].snap, 1))
  /\ [][(dbPath' # dbPath \/ tmpPath' # tmpPath) =>
          \E p \in ProcIds :
            /\ PassOver(procs[p])
            /\ procs[p].pc # "done"
            /\ procs'[p].pc # procs[p].pc
            /\ dbPath' # dbPath =>
                 (procs[p].pc = "rename" /\ dbPath' = JsonFile(procs[p].out))]_vars

\* C18 witness: a cron callback that made two delivery attempts has returned:
\* it has called writeDB once and the store file holds the state it handed over.
C18_Witness ==
  \E p \in ProcIds :
    /\ Returning(p, "tick")
    /\ Len(procs[p].log) = 2
    /\ Outcome(procs[p], <<1, 1>>, "Delivered")
    /\ procs[p].writes = 1
    /\ dbPath = JsonFile(procs[p].out)
    /\ dbPath # JsonFile(procs[p].snap)

\* the bytes at DB_PATH cannot be read or parsed
ReadFails == dbPath.kind # "json"

\* C19: a readDB that fails yields a store without users and no error: the cron
\* callback that made it attempts no delivery and hands an empty user list to
\* writeDB; the /subscribe call that made it hands over a store holding only the
\* new user; both complete, leaving exactly that in the store file, the handler
\* answering 200 with the new user's id.
C19_FailedReadIsEmptyStore ==
  /\ [][\A p \in ProcIds :
          (procs[p].pc = "read" /\ procs'[p].pc # "read" /\ ReadFails) =>
            /\ procs'[p].snap = EmptyDB
            /\ procs[p].op = "tick" =>
                 /\ procs'[p].pc = "open"
                 /\ procs'[p].out = EmptyDB
                 /\ procs'[p].log = <<>>
            /\ procs[p].op = "subscribe" =>
                 /\ procs'[p].pc = "open"
                 /\ procs'[p].out =
                      [users |-> <<[id |-> nextUserId,
                                    subscription |-> procs[p].arg.subscription,
                                    reminders |-> <<>>]>>]]_vars
  /\ [](\A p \in ProcIds :
          (procs[p].pc = "done" /\ procs[p].writes = 1 /\ procs[p].snap = EmptyDB) =>
            /\ procs[p].op = "tick" =>
                 (procs[p].log = <<>> /\ dbPath = JsonFile(EmptyDB))
            /\ procs[p].op = "subscribe" =>
                 /\ procs[p].resp.status = 200
                 /\ Len(Persisted.users) = 1
                 /\ Persisted.users[1].id = procs[p].resp.userId
                 /\ Persisted.users[1].subscription = procs[p].arg.subscription)

\* C19 witness: a cron callback has just read a store file holding the bytes of
\* two overlapped writes: it has sent nothing and is about to write an empty
\* user list.
C19_Witness ==
  \E p \in ProcIds :
    /\ procs[p].op = "tick"
    /\ procs[p].pc = "open"
    /\ dbPath = GarbledFile
    /\ procs[p].out = EmptyDB
    /\ procs[p].log = <<>>

\* C20: a repeating reminder never fires at a subscriber-local minute of the day
\* before its time, also without repeatUntil and when the distance from the
\* previous day's start is a multiple of repeatEveryMinutes; at the local minute
\* equal to its time, never sent and with no earlier repeatUntil, it fires.
C20_RepeatWindowStartsEachLocalDay ==
  (mPhase = "evaluated" /\ mRem.repeatEveryMinutes > 0) =>
    /\ LocalMinuteOfDay(mRem, mNow) < MinuteOfDay(mRem.time) => mResult = FALSE
    /\ (/\ LocalMinuteOfDay(mRem, mNow) = MinuteOfDay(mRem.time)
        /\ mRem.lastSentISO = NULL
        /\ ~EarlierUntil(mRem)) => mResult = TRUE

\* C20 witness: {time: "08:00", every 30 minutes, no repeatUntil, never sent} is
\* evaluated at 07:30 local, 47 * 30 minutes after the previous day's start, in
\* a zone with a non-zero offset, and does not fire.
C20_Witness ==
  /\ mPhase = "evaluated"
  /\ mRem.repeatEveryMinutes = 30
  /\ mRem.time = <<8, 0>>
  /\ mRem.repeatUntil = NULL
  /\ mRem.lastSentISO = NULL
  /\ mRem.timezoneOffsetMinutes = 330
  /\ LocalMinuteOfDay(mRem, mNow) = 7 * 60 + 30
  /\ mResult = FALSE

\* the reminder at the position matches at the callback's evaluation instant, or
\* its evaluation throws
Matches(rec, pos) ==
  \/ EvaluationThrows(ReminderAt(rec.snap, pos))
  \/ shouldFireReminder(ReminderAt(rec.snap, pos), rec.now)

\* C21: when a cron callback has returned in which a delivery to a user failed
\* with 410/404, each later reminder of that user in the store it read was still
\* evaluated, and attempted once when it matched; the user is not in the state
\* handed to writeDB nor in the store file, also when a later attempt was
\* accepted.
C21_RemovedUserStillServedButNotStored ==
  \A p \in ProcIds :
    Returning(p, "tick") =>
      \A k \in 1 .. Len(procs[p].log) :
        procs[p].log[k].outcome = "Gone" =>
          LET ui == procs[p].log[k].ui
              ri == procs[p].log[k].ri
              user == procs[p].snap.users[ui]
          IN  /\ \A rj \in (ri + 1) .. Len(user.reminders) :
                   /\ \E n \in 1 .. Len(procs[p].evals) : procs[p].evals[n] = <<ui, rj>>
                   /\ Attempts(procs[p], <<ui, rj>>)
                        = (IF Matches(procs[p], <<ui, rj>>) THEN 1 ELSE 0)
              /\ user.id \notin UserIds(procs[p].out)
              /\ user.id \notin UserIds(Persisted)

\* C21 witness: a cron callback has returned whose first delivery to a user
\* failed with 410/404 and whose delivery of that user's second reminder was
\* accepted; the user is not in the store file.
C21_Witness ==
  \E p \in ProcIds :
    /\ Returning(p, "tick")
    /\ Len(procs[p].snap.users) = 1
    /\ Outcome(procs[p], <<1, 1>>, "Gone")
    /\ Outcome(procs[p], <<1, 2>>, "Delivered")
    /\ dbPath = JsonFile(EmptyDB)

====
